---- MODULE Spec2Model ----
(***************************************************************************)
(* Model of wems-server (src/app.py): the roommate/expense store behind    *)
(* the Flask routes add_roommate, add_expense, split_expense and           *)
(* weekly_report, and the aggregation and settlement loops of              *)
(* weekly_report.                                                          *)
(*                                                                         *)
(* Amounts.  The code divides a total by the number of consumers.  The     *)
(* model keeps every amount as an integer number of 1/Scale units, where   *)
(* Scale is the least common multiple of every possible consumer count, so *)
(* that the division is exact (the claims are stated for exact             *)
(* arithmetic).  An item cost c is the amount c * Scale.                   *)
(*                                                                         *)
(* Identities.  A roommate's id is a number; its display name is modelled  *)
(* by the id itself (names are taken to be distinct).                      *)
(*                                                                         *)
(* Dates.  A date is a day number; day 0 is a Monday, so weekday(d) is     *)
(* d % 7 as datetime.date.weekday() counts it.                             *)
(***************************************************************************)
EXTENDS Integers, Sequences, FiniteSets, TLC

VARIABLES roommates, expenses, resp, wr

vars == <<roommates, expenses, resp, wr>>

(* ------------------------------ bounds -------------------------------- *)
MaxRoommates == 2
MaxExpenses == 2
MaxConsumers == 2
MaxParties == 4
MaxCost == 4

Max(a, b) == IF a >= b THEN a ELSE b
Min(a, b) == IF a <= b THEN a ELSE b

RECURSIVE Gcd(_, _)
Gcd(a, b) == IF b = 0 THEN a ELSE Gcd(b, a % b)

RECURSIVE LcmUpTo(_)
LcmUpTo(n) == IF n <= 1 THEN 1 ELSE (LcmUpTo(n - 1) * n) \div Gcd(LcmUpTo(n - 1), n)

Scale == LcmUpTo(MaxConsumers)

Ids == 1..Max(MaxRoommates, MaxParties)
ItemNames == {"meat", "rice"}

Zero == [p \in Ids |-> 0]

InSeq(x, s) == \E k \in 1..Len(s) : s[k] = x

RECURSIVE SumSet(_, _)
SumSet(f, S) ==
  IF S = {} THEN 0
  ELSE LET x == CHOOSE y \in S : TRUE IN f[x] + SumSet(f, S \ {x})

(* sum(item['cost'] for item in expense.items), in 1/Scale units *)
RECURSIVE SumCost(_)
SumCost(items) ==
  IF items = <<>> THEN 0 ELSE Head(items).cost * Scale + SumCost(Tail(items))

(* start_date - timedelta(days=start_date.weekday()) *)
WeekStart(d) == d - (d % 7)

(* Expense.objects(date__gte=start, date__lte=end): stored order, both ends included *)
InWeek(e, start) == e.date >= start /\ e.date <= start + 6

WeekExpenses(exps, start) == SelectSeq(exps, LAMBDA e : InWeek(e, start))

(* ------------------- weekly_report: aggregation loop ------------------- *)
(* The request-local state of weekly_report.  order is the key order of    *)
(* spending (and so of balances); rkeys is the key order of report (and of *)
(* consumption); init is the balances map as the settlement loop first     *)
(* sees it; transfers lists the settlement steps taken.                    *)
NoReport ==
  [pc |-> "idle", week |-> <<>>, order |-> <<>>, rkeys |-> <<>>,
   spending |-> Zero, consumption |-> Zero,
   total_amount |-> Zero, total_items |-> Zero,
   items |-> [p \in Ids |-> [n \in ItemNames |-> 0]],
   inames |-> [p \in Ids |-> {}],
   owed_by |-> [p \in Ids |-> <<>>], owes_to |-> [p \in Ids |-> <<>>],
   init |-> Zero, bal |-> Zero, i |-> 0, j |-> 0, balance |-> 0,
   transfers |-> <<>>]

(* lines 222-226: for item in expense.items *)
RECURSIVE AddItems(_, _, _)
AddItems(st, c, items) ==
  IF items = <<>> THEN st
  ELSE LET it == Head(items)
           fresh == it.item \notin st.inames[c]
           s1 == [st EXCEPT
                    !.inames[c] = @ \cup {it.item},
                    !.total_items[c] = IF fresh THEN @ + 1 ELSE @,
                    !.items[c][it.item] = @ + it.cost * Scale]
       IN AddItems(s1, c, Tail(items))

(* lines 206-228: for roommate in expense.consumed_by *)
RECURSIVE AddConsumers(_, _, _)
AddConsumers(st, e, k) ==
  IF k > Len(e.consumed_by) THEN st
  ELSE LET c == e.consumed_by[k]
           s1 == IF InSeq(c, st.rkeys) THEN st
                 ELSE [st EXCEPT !.rkeys = Append(@, c)]
           s2 == [s1 EXCEPT
                    !.consumption[c] = @ + (SumCost(e.items) \div Len(e.consumed_by))]
           s3 == AddItems(s2, c, e.items)
           s4 == [s3 EXCEPT !.total_amount[c] = @ + SumCost(e.items)]
       IN AddConsumers(s4, e, k + 1)

(* lines 200-228: for expense in expenses *)
RECURSIVE AddExpenses(_, _)
AddExpenses(st, exps) ==
  IF exps = <<>> THEN st
  ELSE LET e == Head(exps)
           p == e.purchased_by
           s1 == IF InSeq(p, st.order) THEN st
                 ELSE [st EXCEPT !.order = Append(@, p)]
           s2 == [s1 EXCEPT !.spending[p] = @ + SumCost(e.items)]
       IN AddExpenses(AddConsumers(s2, e, 1), Tail(exps))

(* lines 230-234: one balance per key of spending *)
Balances(st) ==
  [p \in Ids |-> IF InSeq(p, st.order) THEN st.spending[p] - st.consumption[p] ELSE 0]

(* lines 194-234: the state in which the settlement loop starts *)
Aggregate(exps, start) ==
  LET s1 == AddExpenses([NoReport EXCEPT !.week = WeekExpenses(exps, start)],
                        WeekExpenses(exps, start))
      b == Balances(s1)
  IN [s1 EXCEPT !.pc = "outer", !.init = b, !.bal = b, !.i = 1]

(* ------------------- weekly_report: settlement loop -------------------- *)
(* Roommate.name of the report entry of id p *)
NameOf(p) == p

(* lines 236-237: the outer loop takes the next key of balances and the    *)
(* value it holds at that moment                                           *)
OuterStep(st) ==
  IF st.i > Len(st.order) THEN [st EXCEPT !.pc = "done"]
  ELSE LET balance == st.bal[st.order[st.i]]
       IN IF balance > 0
          THEN [st EXCEPT !.pc = "inner", !.j = 1, !.balance = balance]
          ELSE [st EXCEPT !.i = @ + 1]

(* line 240: balance is the value the outer loop read, other_balance the   *)
(* value the inner loop reads now                                          *)
Amount(balance, other_balance) == Min(balance, -other_balance)

(* lines 238-252: one iteration of the inner loop.  report[...] of an id   *)
(* with no report entry raises KeyError before anything is appended.       *)
InnerStep(st) ==
  IF st.j > Len(st.order) THEN [st EXCEPT !.pc = "outer", !.i = @ + 1]
  ELSE LET roommate_id == st.order[st.i]
           other_id == st.order[st.j]
           other_balance == st.bal[other_id]
           amount == Amount(st.balance, other_balance)
       IN IF other_id # roommate_id /\ other_balance < 0
          THEN IF ~InSeq(roommate_id, st.rkeys) \/ ~InSeq(other_id, st.rkeys)
               THEN [st EXCEPT !.pc = "error"]
               ELSE LET s1 == [st EXCEPT
                                 !.owed_by[roommate_id] =
                                    Append(@, [user |-> NameOf(other_id), amount |-> amount]),
                                 !.owes_to[other_id] =
                                    Append(@, [user |-> NameOf(roommate_id), amount |-> amount]),
                                 !.bal[roommate_id] = @ - amount,
                                 !.bal[other_id] = @ + amount,
                                 !.transfers =
                                    Append(@, [from |-> other_id, to |-> roommate_id,
                                               amount |-> amount,
                                               credit |-> st.bal[roommate_id],
                                               debt |-> -other_balance])]
                    IN IF s1.bal[roommate_id] = 0
                       THEN [s1 EXCEPT !.pc = "outer", !.i = @ + 1]
                       ELSE [s1 EXCEPT !.j = @ + 1]
          ELSE [st EXCEPT !.j = @ + 1]

(* lines 236-252 run to the end of the request *)
RECURSIVE RunSettle(_)
RunSettle(st) ==
  IF st.pc = "outer" THEN RunSettle(OuterStep(st))
  ELSE IF st.pc = "inner" THEN RunSettle(InnerStep(st))
  ELSE st
(* --------------------------- request inputs ---------------------------- *)
(* A JSON field of a request body is [kind, val]: kind is "absent" (no     *)
(* such key), "empty" (a falsy value: "" or []), "bad" (a value of the     *)
(* wrong shape: an unparsable date, items that are no list of dicts, a     *)
(* consumedBy that is no list of strings) or "ok".                         *)
SeqsUpTo(S, n) == UNION {[1..k -> S] : k \in 1..n}

Dates == {6, 7}
QueryDates == {2, 7}

ItemLists ==
  { <<[item |-> "meat", cost |-> 20], [item |-> "rice", cost |-> 10]>>,
    <<[item |-> "rice", cost |-> 10]>> }

Field(kind, val) == [kind |-> kind, val |-> val]

WellFormedRequests ==
  [date : {Field("ok", d) : d \in Dates},
   mealType : {Field("ok", "lunch")},
   items : {Field("ok", l) : l \in ItemLists},
   purchasedBy : {Field("ok", p) : p \in 1..MaxRoommates},
   consumedBy : {Field("ok", c) : c \in SeqsUpTo(1..MaxRoommates, MaxConsumers)}]

MalformedRequests ==
  [date : {Field("absent", 0), Field("bad", 0), Field("ok", 6)},
   mealType : {Field("absent", ""), Field("ok", "lunch")},
   items : {Field("empty", <<>>), Field("bad", <<>>),
            Field("ok", <<[item |-> "rice", cost |-> 10]>>)},
   purchasedBy : {Field("absent", 0), Field("ok", 1)},
   consumedBy : {Field("absent", <<>>), Field("empty", <<>>), Field("bad", <<>>),
                 Field("ok", <<1>>)}]

ExpenseRequests == WellFormedRequests \cup MalformedRequests

required_fields == {"date", "mealType", "items", "purchasedBy", "consumedBy"}

(* line 94 without its second test: field not in data *)
MissingFieldsPresenceOnly(data) == {f \in required_fields : data[f].kind = "absent"}

(* line 94: field not in data or not data[field] *)
MissingFields(data) ==
  {f \in required_fields : data[f].kind = "absent" \/ data[f].kind = "empty"}

(* ------------------------------ responses ------------------------------ *)
(* The last response: the route, the HTTP status, the exception that ended *)
(* the request (if any), whether a document was saved, whether the request *)
(* came with no consumer (consumedBy absent or []), and split_expense's    *)
(* amounts.                                                                *)
Response(op, status, error, saved, noConsumers, amounts) ==
  [op |-> op, status |-> status, error |-> error, saved |-> saved,
   noConsumers |-> noConsumers, amounts |-> amounts]

(* lines 88-139: the outcome of add_expense on a request body *)
AddExpenseOutcome(data, known) ==
  LET none == data.consumedBy.kind \in {"absent", "empty"}
      reject(status, error) == Response("add_expense", status, error, FALSE, none, Zero)
  IN IF MissingFields(data) # {} THEN reject(400, "none")
     ELSE IF data.items.kind = "bad" THEN reject(400, "none")
     ELSE IF data.consumedBy.kind = "bad" THEN reject(400, "none")
     ELSE IF data.date.kind # "ok" THEN reject(400, "ValueError")
     ELSE IF data.purchasedBy.kind # "ok" THEN reject(500, "Exception")
     ELSE IF data.purchasedBy.val \notin known THEN reject(404, "DoesNotExist")
     ELSE IF \E k \in 1..Len(data.consumedBy.val) : data.consumedBy.val[k] \notin known
          THEN reject(404, "DoesNotExist")
     ELSE Response("add_expense", 201, "none", TRUE, none, Zero)

(* lines 107-113: the Expense document built from the request body *)
ExpenseOf(data) ==
  [date |-> data.date.val, meal_type |-> data.mealType.val, items |-> data.items.val,
   purchased_by |-> data.purchasedBy.val, consumed_by |-> data.consumedBy.val]

(* lines 179-184 of split_expense *)
RECURSIVE SplitConsumers(_, _, _)
SplitConsumers(amounts, cons, split_amount) ==
  IF cons = <<>> THEN amounts
  ELSE SplitConsumers([amounts EXCEPT ![Head(cons)] = @ + split_amount],
                      Tail(cons), split_amount)

RECURSIVE SplitExpenses(_, _)
SplitExpenses(amounts, exps) ==
  IF exps = <<>> THEN Response("split_expense", 200, "none", FALSE, FALSE, amounts)
  ELSE LET e == Head(exps)
           total_cost == SumCost(e.items)
       IN IF Len(e.consumed_by) = 0
          THEN Response("split_expense", 500, "ZeroDivisionError", FALSE, FALSE, Zero)
          ELSE SplitExpenses(
                 SplitConsumers(amounts, e.consumed_by, total_cost \div Len(e.consumed_by)),
                 Tail(exps))

(* ------------------------------- the server ---------------------------- *)
Init ==
  /\ roommates = {}
  /\ expenses = <<>>
  /\ resp = Response("none", 0, "none", FALSE, FALSE, Zero)
  /\ wr = NoReport

(* lines 48-57: a body without one of the four keys ends in KeyError *)
add_roommate ==
  /\ Cardinality(roommates) < MaxRoommates
  /\ \E complete \in BOOLEAN :
       IF complete
       THEN /\ roommates' = roommates \cup {Cardinality(roommates) + 1}
            /\ resp' = Response("add_roommate", 201, "none", TRUE, FALSE, Zero)
       ELSE /\ roommates' = roommates
            /\ resp' = Response("add_roommate", 500, "KeyError", FALSE, FALSE, Zero)
  /\ wr' = NoReport
  /\ UNCHANGED expenses

(* lines 82-139 *)
add_expense ==
  \E data \in ExpenseRequests :
    LET out == AddExpenseOutcome(data, roommates)
    IN /\ out.saved => Len(expenses) < MaxExpenses
       /\ expenses' = IF out.saved THEN Append(expenses, ExpenseOf(data)) ELSE expenses
       /\ resp' = out
       /\ wr' = NoReport
       /\ UNCHANGED roommates

(* lines 170-186: a start_date that does not parse ends the request *)
split_expense ==
  \E start_date \in QueryDates, parses \in BOOLEAN :
    /\ resp' = IF ~parses
               THEN Response("split_expense", 500, "ValueError", FALSE, FALSE, Zero)
               ELSE SplitExpenses(Zero, WeekExpenses(expenses, WeekStart(start_date)))
    /\ wr' = NoReport
    /\ UNCHANGED <<roommates, expenses>>

(* lines 188-262: an exception in the loops ends the request with no report *)
weekly_report ==
  \E start_date \in QueryDates, parses \in BOOLEAN :
    IF ~parses
    THEN /\ resp' = Response("weekly_report", 500, "ValueError", FALSE, FALSE, Zero)
         /\ wr' = NoReport
         /\ UNCHANGED <<roommates, expenses>>
    ELSE LET st == RunSettle(Aggregate(expenses, WeekStart(start_date)))
         IN /\ wr' = st
            /\ resp' = IF st.pc = "done"
                       THEN Response("weekly_report", 200, "none", FALSE, FALSE, Zero)
                       ELSE Response("weekly_report", 500, "KeyError", FALSE, FALSE, Zero)
            /\ UNCHANGED <<roommates, expenses>>

Next == add_roommate \/ add_expense \/ split_expense \/ weekly_report

Spec == Init /\ [][Next]_vars
(* ------------- weekly_report, one loop iteration at a time ------------- *)
(* The store after MaxParties or fewer add_roommate requests and one       *)
(* add_expense request per roommate, in id order, each for one consumer.   *)
SettleDates == {7}

SettleInit ==
  \E n \in 1..MaxParties, d \in SettleDates :
    \E cons \in [1..n -> 1..n], cost \in [1..n -> 1..MaxCost] :
      /\ roommates = 1..n
      /\ expenses = [k \in 1..n |->
                       [date |-> d, meal_type |-> "lunch",
                        items |-> <<[item |-> "rice", cost |-> cost[k]]>>,
                        purchased_by |-> k, consumed_by |-> <<cons[k]>>]]
      /\ resp = Response("add_expense", 201, "none", TRUE, FALSE, Zero)
      /\ wr = NoReport

(* lines 190-234 *)
ReportStart ==
  /\ wr.pc = "idle"
  /\ resp.op # "weekly_report"
  /\ \E start_date \in SettleDates : wr' = Aggregate(expenses, WeekStart(start_date))
  /\ UNCHANGED <<roommates, expenses, resp>>

(* lines 236-237 *)
ReportOuter ==
  /\ wr.pc = "outer"
  /\ wr' = OuterStep(wr)
  /\ UNCHANGED <<roommates, expenses, resp>>

(* lines 238-252 *)
ReportInner ==
  /\ wr.pc = "inner"
  /\ wr' = InnerStep(wr)
  /\ UNCHANGED <<roommates, expenses, resp>>

(* lines 254-262, or the exception leaving the route *)
ReportReturn ==
  /\ wr.pc \in {"done", "error"}
  /\ resp.op # "weekly_report"
  /\ resp' = IF wr.pc = "done"
             THEN Response("weekly_report", 200, "none", FALSE, FALSE, Zero)
             ELSE Response("weekly_report", 500, "KeyError", FALSE, FALSE, Zero)
  /\ UNCHANGED <<roommates, expenses, wr>>

SettleNext == ReportStart \/ ReportOuter \/ ReportInner \/ ReportReturn

SettleSpec == SettleInit /\ [][SettleNext]_vars

(* ------------------------------ properties ----------------------------- *)
Keys(s) == {s[k] : k \in 1..Len(s)}

(* every purchaser and every consumer of the week *)
Involved == Keys(wr.order) \cup Keys(wr.rkeys)

(* total spent minus total consumed *)
Net(p) == wr.spending[p] - wr.consumption[p]

RECURSIVE SumAmounts(_)
SumAmounts(ts) == IF ts = <<>> THEN 0 ELSE Head(ts).amount + SumAmounts(Tail(ts))

Received(p) == SumAmounts(SelectSeq(wr.transfers, LAMBDA t : t.to = p))
Paid(p) == SumAmounts(SelectSeq(wr.transfers, LAMBDA t : t.from = p))

Positive(x) == IF x > 0 THEN x ELSE 0

(* C1: the net balances weekly_report computes sum to zero. *)
BalancesSumToZero ==
  wr.pc # "idle" => SumSet(wr.init, Ids) = 0

(* C2: when the settlement loop has ended, replaying every transfer on the *)
(* net balance (spent minus consumed) of every purchaser and every         *)
(* consumer leaves every balance at zero.                                  *)
SettlementComplete ==
  wr.pc = "done" => \A p \in Involved : Net(p) - Received(p) + Paid(p) = 0

(* C3: the settlement loop emits at most max(0, N-1) transfers, N being    *)
(* the number of persons whose initial balance is not zero.                *)
TransferBound ==
  wr.pc = "done" =>
    Len(wr.transfers) <= Max(0, Cardinality({p \in Ids : wr.init[p] # 0}) - 1)

(* C4: when the initial balances sum to zero, the amounts of the transfers *)
(* sum to the sum of the positive initial balances.                        *)
TransferTotal ==
  (wr.pc = "done" /\ SumSet(wr.init, Ids) = 0) =>
    SumAmounts(wr.transfers) = SumSet([p \in Ids |-> Positive(wr.init[p])], Ids)

(* C5: at every step of the settlement a creditor's remaining balance      *)
(* stays between zero and its initial value, a debtor's between its        *)
(* initial value and zero, and every transfer is the minimum of the        *)
(* creditor's remaining credit and the debtor's remaining debt.            *)
MonotoneToZero ==
  wr.pc \in {"outer", "inner", "done"} =>
    /\ \A p \in Ids :
         /\ wr.init[p] >= 0 => (0 <= wr.bal[p] /\ wr.bal[p] <= wr.init[p])
         /\ wr.init[p] <= 0 => (wr.init[p] <= wr.bal[p] /\ wr.bal[p] <= 0)
    /\ \A k \in 1..Len(wr.transfers) :
         wr.transfers[k].amount = Min(wr.transfers[k].credit, wr.transfers[k].debt)

(* C6: for every person of the report, the values of the per-item          *)
(* breakdown sum to the person's total consumed amount.                    *)
ItemSumIsConsumed ==
  wr.pc # "idle" =>
    \A p \in Keys(wr.rkeys) : SumSet(wr.items[p], wr.inames[p]) = wr.consumption[p]

(* C7: a week of one expense of total T, whose k >= 2 distinct consumers   *)
(* include the purchaser P, yields exactly one transfer of T/k to P from   *)
(* each other consumer, and no other transfer.                             *)
SingleExpenseEqualSplit ==
  (/\ wr.pc \in {"done", "error"}
   /\ Len(wr.week) = 1
   /\ Len(wr.week[1].consumed_by) >= 2
   /\ Cardinality(Keys(wr.week[1].consumed_by)) = Len(wr.week[1].consumed_by)
   /\ wr.week[1].purchased_by \in Keys(wr.week[1].consumed_by))
  =>
  LET e == wr.week[1]
      share == SumCost(e.items) \div Len(e.consumed_by)
  IN /\ wr.pc = "done"
     /\ Len(wr.transfers) = Len(e.consumed_by) - 1
     /\ {<<t.from, t.to, t.amount>> : t \in Keys(wr.transfers)}
          = {<<q, e.purchased_by, share>> : q \in Keys(e.consumed_by) \ {e.purchased_by}}

(* C8: add_expense rejects a request with no consumer and saves nothing,   *)
(* every stored expense has at least one consumer, and no request ends in  *)
(* a division by a consumer count of zero.                                 *)
NoEmptyConsumerGroup ==
  /\ \A k \in 1..Len(expenses) : Len(expenses[k].consumed_by) >= 1
  /\ resp.error # "ZeroDivisionError"
  /\ (resp.op = "add_expense" /\ resp.noConsumers) =>
        (resp.status = 400 /\ ~resp.saved)

(* add_expense has just rejected a request with an empty consumer list     *)
(* while the store already holds an expense                                *)
EmptyConsumersRejected ==
  /\ resp.op = "add_expense"
  /\ resp.noConsumers
  /\ resp.status = 400
  /\ Len(expenses) >= 1

(* C9: when the balances handed to the settlement loop do not sum to zero, *)
(* weekly_report fails with an error instead of returning a report.        *)
ImbalanceFails ==
  (resp.op = "weekly_report" /\ wr.pc # "idle" /\ SumSet(wr.init, Ids) # 0) =>
    resp.status # 200

(* C10: weekly_report on a parsable date completes with a report: the      *)
(* settlement loop only writes to persons that have a report entry.        *)
ReportCompletes ==
  (resp.op = "weekly_report" /\ resp.error # "ValueError") =>
    (resp.status = 200 /\ wr.pc = "done")
====
